---- MODULE Spec2Model ----
(***************************************************************************)
(* The local document store of BugIt (src/core/storage.py): the per-record  *)
(* advisory lock (file_lock, POSIX branch), the atomic writer, the reader,  *)
(* and the repository operations save_issue, load_issue, list_issues and    *)
(* delete_issue, run by concurrent processes over one filesystem.           *)
(***************************************************************************)
EXTENDS Integers, Sequences, FiniteSets, TLC

\* ------------------------------------------------------------------ bounds
NumProcs == 2
MaxOps == 2
MaxSeqOps == 2
MaxLockOps == 3
MaxClock == 1
MaxDelOps == 3
MaxBakOps == 3
MaxIdxOps == 3
MaxRetries == 3

Procs == 1..NumProcs
Times == 0..MaxClock

\* ------------------------------------------------------------- documents
\* Record ids: the 6-character tokens of save_issue, or caller-supplied ids.
Ids == {"a1", "b2"}

\* Caller-supplied ids that are not plain tokens: one with a path separator,
\* one that contains ".tmp".
OddIds == {"c/3", "d.tmp"}

\* The names a record file can have: issues_dir / f"{issue_id}.json"
Names == Ids \cup OddIds

\* The path <id>.json lies in a subdirectory of the records directory.
HasSep(i) == i \in {"c/3"}

\* ".tmp" in issue_file.name
HasTmp(i) == i \in {"d.tmp"}

\* A key that the dictionary does not have.
NoKey == "<missing>"

\* The value of data.get("id") when the key is missing or the value is falsy.
Truthy(v) == v \notin {NoKey, ""}

\* Python documents handed to save_issue.  tags is the Python container type
\* of the tags value ("list" or "tuple"), or NoKey.
Doc(i, t, s, c, g) ==
    [id |-> i, title |-> t, severity |-> s, created_at |-> c, tags |-> g]

NullDoc == Doc(NoKey, NoKey, NoKey, NoKey, NoKey)

Docs ==
    { Doc("a1", "t1", "low", "2024-01-01", "list"),
      Doc("a1", "t2", "critical", "2024-01-02", "tuple"),
      Doc("b2", "t3", "critical", "2024-01-01", NoKey),
      Doc(NoKey, "t4", NoKey, NoKey, "list") }

\* Documents that carry the ids of OddIds.
OddDocs ==
    { Doc("c/3", "t5", "low", "2024-01-01", NoKey),
      Doc("d.tmp", "t6", "low", "2024-01-01", NoKey) }

\* json.dump: a list and a tuple are both written as a JSON array.
JsonDump(d) ==
    [d EXCEPT !.tags = IF @ \in {"list", "tuple"} THEN "array" ELSE @]

\* (variant: arrays come back as tuples)
JsonLoadAsTuple(j) ==
    [j EXCEPT !.tags = IF @ = "array" THEN "tuple" ELSE @]

\* json.load: a JSON array is read back as a list.
JsonLoad(j) ==
    [j EXCEPT !.tags = IF @ = "array" THEN "list" ELSE @]

\* File contents: kind is "absent", "empty", "partial" (a truncated
\* serialisation of doc), "json" (the complete serialisation of doc),
\* "corrupt" (bytes that do not parse) or "nonmap" (JSON that is not an
\* object).
File(k, j) == [kind |-> k, doc |-> j]
Absent == File("absent", NullDoc)

\* ------------------------------------------------------------------ state
VARIABLES
    files,      \* records directory: id -> content of <id>.json
    lockPath,   \* records directory: id -> inode linked at <id>.json.lock, 0 if none
    backups,    \* backups directory: <<id, unixtime>> -> content of <id>_<unixtime>.json
    orphans,    \* ids whose temp file was left behind by a killed writer
    ops,        \* calls started so far
    pc,         \* per process: position in the running call
    cur,        \* per process: the running call's locals
    fd,         \* per process: inode behind lock_fd, 0 if lock_fd is None
    holds,      \* per process: lock_fd holds the flock on its inode
    tmp,        \* per process: content of the mkstemp file, Absent if none
    exc,        \* per process: exception in flight
    todo,       \* per process: list_issues' files still to visit
    acc,        \* per process: list_issues' issues list
    failed,     \* per process: list_issues' failed_files
    index,      \* per process: get_issue_by_index's index, 0 outside that call
    stats,      \* per process: the running list_issues was called by get_storage_stats
    debug,      \* the environment variable BUGIT_DEBUG is set
    run,        \* the description-processing run: the graph state and its outcome
    stdout,     \* a diagnostic line has been printed on standard output
    log,        \* per process: the outcomes of its calls that have returned, in order
    written     \* history: id -> the serialisations ever renamed onto <id>.json

vars == <<files, lockPath, backups, orphans, ops, pc, cur, fd, holds,
          tmp, exc, todo, acc, failed, index, stats, debug, run, stdout, log, written>>

fsVars == <<files, lockPath, backups, orphans, written>>

NoExc == [type |-> "none", why |-> "none"]
Exc(t, w) == [type |-> t, why |-> w]

\* Locals of a call: the record id, the caller's argument and the document it
\* works on, the backup setting and backup time of delete_issue, the source
\* copy2 has open, and the state .bugitrc was found in.
Locals(o, i, a, d, b, t, s) ==
    [op |-> o, id |-> i, arg |-> a, doc |-> d, bk |-> b, bt |-> t, src |-> s,
     rc |-> "unset"]
NoCall == Locals("none", NoKey, NullDoc, NullDoc, FALSE, 0, Absent)

\* The outcome of a call: its argument, and the value returned (status "ok")
\* or the exception raised (status is its type, why its message).
Result(p, o, i, a, s, w, d, f, l) ==
    [proc |-> p, op |-> o, id |-> i, arg |-> a, status |-> s, why |-> w,
     doc |-> d, flag |-> f, docs |-> l]

\* The stores the calls may start from: every record file is absent or holds
\* the complete serialisation of a document saved under that id.
InitStores ==
    { f \in [Names -> {Absent} \cup {File("json", JsonDump(d)) : d \in Docs}] :
        \A i \in Names : f[i].kind = "json" => f[i].doc.id = i }

\* ProcessingState and what process_description makes of it: node is the
\* graph node about to run ("idle" outside a run), result and error are
\* processed_result and error_message ("none" for None), attempts counts the
\* runs of the analyze node, out / ret / msg are the outcome of the last run.
RunState(n, c, m, r, e, a, o, v, w) ==
    [node |-> n, retry_count |-> c, max_retries |-> m, result |-> r, error |-> e,
     attempts |-> a, out |-> o, ret |-> v, msg |-> w]

NoRun == RunState("idle", 0, 0, "none", "none", 0, "none", "none", "none")

Quiescent ==
    /\ lockPath = [i \in Names |-> 0]
    /\ backups = [k \in Names \X Times |-> Absent]
    /\ orphans = {}
    /\ ops = 0
    /\ pc = [p \in Procs |-> "idle"]
    /\ cur = [p \in Procs |-> NoCall]
    /\ fd = [p \in Procs |-> 0]
    /\ holds = [p \in Procs |-> FALSE]
    /\ tmp = [p \in Procs |-> Absent]
    /\ exc = [p \in Procs |-> NoExc]
    /\ todo = [p \in Procs |-> {}]
    /\ acc = [p \in Procs |-> <<>>]
    /\ failed = [p \in Procs |-> {}]
    /\ index = [p \in Procs |-> 0]
    /\ stats = [p \in Procs |-> FALSE]
    /\ stdout = FALSE
    /\ run = NoRun
    /\ log = [p \in Procs |-> <<>>]

Init ==
    /\ files \in InitStores
    /\ written = [i \in Names |-> IF files[i].kind = "json" THEN {files[i].doc} ELSE {}]
    /\ Quiescent
    /\ debug = FALSE

\* The stores with damaged or hand-edited files: a record file may also hold
\* bytes that do not parse, JSON that is not an object, or a map without an
\* id field.
DirtyStores ==
    { f \in [Names -> {Absent, File("corrupt", NullDoc), File("nonmap", NullDoc)}
                        \cup {File("json", JsonDump(d)) : d \in Docs}] :
        /\ \A i \in Names : f[i].kind = "json" => f[i].doc.id \in {i, NoKey}
        /\ \A i \in OddIds : f[i] = Absent }

InitDirty ==
    /\ files \in DirtyStores
    /\ written = [i \in Names |-> IF files[i].kind = "json" THEN {files[i].doc} ELSE {}]
    /\ Quiescent
    /\ debug = FALSE

\* A call returns (or raises) to its caller.
Return(p, r) ==
    /\ log' = [log EXCEPT ![p] = Append(@, r)]
    /\ pc' = [pc EXCEPT ![p] = "idle"]
    /\ cur' = [cur EXCEPT ![p] = NoCall]
    /\ exc' = [exc EXCEPT ![p] = NoExc]

\* ------------------------------------------------------------- file_lock
\* The inodes of the lock file of record i that are still in use: linked at
\* the lock path or open in some process.
UsedInodes(i) == {lockPath[i]} \cup {fd[p] : p \in {q \in Procs : cur[q].id = i}}
FreshInode(i) == CHOOSE n \in 1..(NumProcs + 1) : n \notin UsedInodes(i)

\* The first statement of the with-body of each caller of file_lock.
BodyPc(op) ==
    CASE op = "save" -> "w_mkstemp"
      [] op = "delete" -> "d_cfg"
      [] OTHER -> "r_read"

\* os.open(lock_file, O_CREAT | O_WRONLY | O_TRUNC).  The lock file lies
\* next to the record file; when that is a subdirectory of the records
\* directory, which nothing has created, os.open raises FileNotFoundError,
\* lock_fd stays None and the except clause raises StorageError.
LockOpen(p) ==
    /\ pc[p] = "lock_open"
    /\ LET i == cur[p].id
           n == IF lockPath[i] # 0 THEN lockPath[i] ELSE FreshInode(i)
       IN  IF HasSep(i)
           THEN /\ exc' = [exc EXCEPT ![p] =
                           Exc("StorageError",
                               "File locking failed: No such file or directory")]
                /\ pc' = [pc EXCEPT ![p] = "ret"]
                /\ UNCHANGED <<lockPath, fd>>
           ELSE /\ lockPath' = [lockPath EXCEPT ![i] = n]
                /\ fd' = [fd EXCEPT ![p] = n]
                /\ pc' = [pc EXCEPT ![p] = "lock_try"]
                /\ exc' = exc
    /\ UNCHANGED <<files, backups, orphans, ops, cur, holds, tmp,
                   todo, acc, failed, index, stats, debug, run, stdout, log, written>>

\* os.open raises: lock_fd stays None, the finally block does nothing and
\* the except clause turns the error into a StorageError.
LockOpenFail(p) ==
    /\ pc[p] = "lock_open"
    /\ exc' = [exc EXCEPT ![p] = Exc("StorageError", "File locking failed")]
    /\ pc' = [pc EXCEPT ![p] = "ret"]
    /\ UNCHANGED <<fsVars, ops, cur, fd, holds, tmp, todo, acc, failed, index, stats, debug, run, stdout, log>>

\* (variant: one lock for the whole store)
HeldByOtherAnyRecord(p) ==
    \E q \in Procs \ {p} : holds[q]

\* The flock on p's inode is held through another open file description.
HeldByOther(p) ==
    \E q \in Procs \ {p} : cur[q].id = cur[p].id /\ fd[q] = fd[p] /\ holds[q]

\* fcntl.flock(lock_fd, LOCK_EX | LOCK_NB) succeeds; the with-body starts.
LockAcquire(p) ==
    /\ pc[p] = "lock_try"
    /\ ~HeldByOther(p)
    /\ holds' = [holds EXCEPT ![p] = TRUE]
    /\ pc' = [pc EXCEPT ![p] = BodyPc(cur[p].op)]
    /\ UNCHANGED <<fsVars, ops, cur, fd, tmp, exc, todo, acc, failed, index, stats, debug, run, stdout, log>>

\* (variant: the loop is left without raising when the timeout has elapsed)
LockTimeoutProceed(p) ==
    /\ pc[p] = "lock_try"
    /\ HeldByOther(p)
    /\ pc' = [pc EXCEPT ![p] = BodyPc(cur[p].op)]
    /\ UNCHANGED <<fsVars, ops, cur, fd, holds, tmp, exc, todo, acc, failed, index, stats, debug, run, stdout, log>>

\* flock fails and time.time() - start_time > timeout.  (While the timeout
\* has not elapsed the loop sleeps and retries, which changes no state.)
LockTimeout(p) ==
    /\ pc[p] = "lock_try"
    /\ HeldByOther(p)
    /\ exc' = [exc EXCEPT ![p] = Exc("ConcurrentAccessError", "Could not acquire lock")]
    /\ pc' = [pc EXCEPT ![p] = "lock_release"]
    /\ UNCHANGED <<fsVars, ops, cur, fd, holds, tmp, todo, acc, failed, index, stats, debug, run, stdout, log>>

\* flock keeps raising an OSError although nobody holds the lock (no locks
\* available, say): the loop retries it like contention, up to the timeout.
LockFlockFail(p) ==
    /\ pc[p] = "lock_try"
    /\ ~HeldByOther(p)
    /\ exc' = [exc EXCEPT ![p] = Exc("ConcurrentAccessError", "Could not acquire lock")]
    /\ pc' = [pc EXCEPT ![p] = "lock_release"]
    /\ UNCHANGED <<fsVars, ops, cur, fd, holds, tmp, todo, acc, failed, index, stats, debug, run, stdout, log>>

\* (variant: the unlock is skipped while an exception is in flight)
LockReleaseOnSuccess(p) ==
    /\ pc[p] = "lock_release"
    /\ holds' = [holds EXCEPT ![p] = IF exc[p].type = "none" THEN FALSE ELSE @]
    /\ fd' = [fd EXCEPT ![p] = IF exc[p].type = "none" THEN 0 ELSE @]
    /\ pc' = [pc EXCEPT ![p] = "lock_unlink"]
    /\ UNCHANGED <<files, lockPath, backups, orphans, ops, cur, tmp,
                   exc, todo, acc, failed, index, stats, debug, run, stdout, log, written>>

\* finally: fcntl.flock(lock_fd, LOCK_UN); os.close(lock_fd)
LockRelease(p) ==
    /\ pc[p] = "lock_release"
    /\ holds' = [holds EXCEPT ![p] = FALSE]
    /\ fd' = [fd EXCEPT ![p] = 0]
    /\ pc' = [pc EXCEPT ![p] = "lock_unlink"]
    /\ UNCHANGED <<files, lockPath, backups, orphans, ops, cur, tmp,
                   exc, todo, acc, failed, index, stats, debug, run, stdout, log, written>>

\* (variant: the side-car is left on disk)
LockUnlinkSkip(p) ==
    /\ pc[p] = "lock_unlink"
    /\ pc' = [pc EXCEPT ![p] = "ret"]
    /\ UNCHANGED <<fsVars, ops, cur, fd, holds, tmp, exc, todo, acc, failed, index, stats, debug, run, stdout, log>>

\* finally: lock_file.unlink(missing_ok=True)
LockUnlink(p) ==
    /\ pc[p] = "lock_unlink"
    /\ lockPath' = [lockPath EXCEPT ![cur[p].id] = 0]
    /\ pc' = [pc EXCEPT ![p] = "ret"]
    /\ UNCHANGED <<files, backups, orphans, ops, cur, fd, holds, tmp,
                   exc, todo, acc, failed, index, stats, debug, run, stdout, log, written>>

\* An exception raised in the with-body is re-raised by file_lock as a
\* StorageError unless it is a ConcurrentAccessError.
Wrap(e) == IF e.type = "ConcurrentAccessError" THEN e ELSE Exc("StorageError", e.why)

\* The with-body raises e: file_lock's except clause, then its finally block.
RaiseInBody(p, e) ==
    /\ exc' = [exc EXCEPT ![p] = Wrap(e)]
    /\ pc' = [pc EXCEPT ![p] = "lock_release"]

\* ----------------------------------------------------- atomic_write_json
\* (variant: the file is opened for writing at the target path itself)
WriteMkstempAtTarget(p) ==
    /\ pc[p] = "w_mkstemp"
    /\ tmp' = [tmp EXCEPT ![p] = File("empty", JsonDump(cur[p].doc))]
    /\ files' = [files EXCEPT ![cur[p].id] = File("empty", JsonDump(cur[p].doc))]
    /\ pc' = [pc EXCEPT ![p] = "w_dump"]
    /\ UNCHANGED <<lockPath, backups, orphans, written, ops, cur, fd, holds, exc,
                   todo, acc, failed, index, stats, debug, run, stdout, log>>

\* (variant: the target is removed before the temp file is written)
WriteMkstempUnlinkTarget(p) ==
    /\ pc[p] = "w_mkstemp"
    /\ tmp' = [tmp EXCEPT ![p] = File("empty", JsonDump(cur[p].doc))]
    /\ files' = [files EXCEPT ![cur[p].id] = Absent]
    /\ pc' = [pc EXCEPT ![p] = "w_dump"]
    /\ UNCHANGED <<lockPath, backups, orphans, written, ops, cur, fd, holds, exc,
                   todo, acc, failed, index, stats, debug, run, stdout, log>>

\* tempfile.mkstemp(suffix=".tmp", prefix=".<name>.", dir=parent)
WriteMkstemp(p) ==
    /\ pc[p] = "w_mkstemp"
    /\ tmp' = [tmp EXCEPT ![p] = File("empty", JsonDump(cur[p].doc))]
    /\ pc' = [pc EXCEPT ![p] = "w_dump"]
    /\ UNCHANGED <<fsVars, ops, cur, fd, holds, exc, todo, acc, failed, index, stats, debug, run, stdout, log>>

\* (variant: the serialisation is written into the target file)
WriteDumpInPlace(p) ==
    /\ pc[p] = "w_dump"
    /\ tmp' = [tmp EXCEPT ![p] = File("partial", @.doc)]
    /\ files' = [files EXCEPT ![cur[p].id] = File("partial", tmp[p].doc)]
    /\ pc' = [pc EXCEPT ![p] = "w_fsync"]
    /\ UNCHANGED <<lockPath, backups, orphans, written, ops, cur, fd, holds, exc,
                   todo, acc, failed, index, stats, debug, run, stdout, log>>

\* json.dump writes the serialisation into the temp file
WriteDump(p) ==
    /\ pc[p] = "w_dump"
    /\ tmp' = [tmp EXCEPT ![p] = File("partial", @.doc)]
    /\ pc' = [pc EXCEPT ![p] = "w_fsync"]
    /\ UNCHANGED <<fsVars, ops, cur, fd, holds, exc, todo, acc, failed, index, stats, debug, run, stdout, log>>

\* temp_file.flush(); os.fsync(); the file is closed
WriteFsync(p) ==
    /\ pc[p] = "w_fsync"
    /\ tmp' = [tmp EXCEPT ![p] = File("json", @.doc)]
    /\ pc' = [pc EXCEPT ![p] = "w_replace"]
    /\ UNCHANGED <<fsVars, ops, cur, fd, holds, exc, todo, acc, failed, index, stats, debug, run, stdout, log>>

\* (variant: the new bytes are written over the old file without truncating)
WriteReplaceInPlace(p) ==
    /\ pc[p] = "w_replace"
    /\ files' = [files EXCEPT ![cur[p].id] =
                   IF @.kind = "json" /\ @.doc # tmp[p].doc
                   THEN File("corrupt", tmp[p].doc)
                   ELSE tmp[p]]
    /\ written' = [written EXCEPT ![cur[p].id] = @ \cup {tmp[p].doc}]
    /\ tmp' = [tmp EXCEPT ![p] = Absent]
    /\ pc' = [pc EXCEPT ![p] = "lock_release"]
    /\ UNCHANGED <<lockPath, backups, orphans, ops, cur, fd, holds,
                   exc, todo, acc, failed, index, stats, debug, run, stdout, log>>

\* temp_path_obj.replace(file_path)
WriteReplace(p) ==
    /\ pc[p] = "w_replace"
    /\ files' = [files EXCEPT ![cur[p].id] = tmp[p]]
    /\ written' = [written EXCEPT ![cur[p].id] = @ \cup {tmp[p].doc}]
    /\ tmp' = [tmp EXCEPT ![p] = Absent]
    /\ pc' = [pc EXCEPT ![p] = "lock_release"]
    /\ UNCHANGED <<lockPath, backups, orphans, ops, cur, fd, holds,
                   exc, todo, acc, failed, index, stats, debug, run, stdout, log>>

\* (variant: the except clause leaves the temp file on disk)
WriteFailKeepTemp(p) ==
    /\ pc[p] \in {"w_dump", "w_fsync", "w_replace"}
    /\ tmp' = [tmp EXCEPT ![p] = Absent]
    /\ orphans' = orphans \cup {cur[p].id}
    /\ RaiseInBody(p, Exc("StorageError", "Atomic write failed"))
    /\ UNCHANGED <<files, lockPath, backups, written, ops, cur, fd, holds, todo,
                   acc, failed, index, stats, debug, run, stdout, log>>

\* A step after mkstemp raises (disk full, I/O error): the except clause
\* unlinks the temp file and raises StorageError.
WriteFail(p) ==
    /\ pc[p] \in {"w_dump", "w_fsync", "w_replace"}
    /\ tmp' = [tmp EXCEPT ![p] = Absent]
    /\ RaiseInBody(p, Exc("StorageError", "Atomic write failed"))
    /\ UNCHANGED <<fsVars, ops, cur, fd, holds, todo, acc, failed, index, stats, debug, run, stdout, log>>

\* -------------------------------------------------------- read_json_file
\* open, json.load and the dictionary check, under the caller's lock
ReadJsonFile(p) ==
    /\ pc[p] = "r_read"
    /\ LET f == files[cur[p].id]
       IN  CASE f.kind = "json" ->
                  /\ cur' = [cur EXCEPT ![p].doc = JsonLoad(f.doc)]
                  /\ pc' = [pc EXCEPT ![p] = "lock_release"]
                  /\ exc' = exc
             [] f.kind = "absent" ->
                  /\ RaiseInBody(p, Exc("StorageError", "Issue file not found"))
                  /\ cur' = cur
             [] f.kind = "nonmap" ->
                  /\ RaiseInBody(p, Exc("StorageError", "Invalid JSON structure"))
                  /\ cur' = cur
             [] OTHER ->
                  /\ RaiseInBody(p, Exc("StorageError", "Invalid JSON"))
                  /\ cur' = cur
    /\ UNCHANGED <<fsVars, ops, fd, holds, tmp, todo, acc, failed, index, stats, debug, run, stdout, log>>

\* if "id" not in data: data["id"] = <name>
Backfill(d, i) == IF d.id = NoKey THEN [d EXCEPT !.id = i] ELSE d

\* ------------------------------------------------------------ save_issue
\* The id save_issue works with: data.get("id"), or a fresh token g.
SaveId(d, g) == IF Truthy(d.id) THEN d.id ELSE g

\* save_issue up to the with statement; g is str(uuid.uuid4())[:6].  Its
\* print calls, and those of ensure_issues_directory and atomic_write_json,
\* write "[DEBUG]" lines on standard output whatever BUGIT_DEBUG is.
SaveIssue(p, d, g) ==
    /\ pc[p] = "idle"
    /\ ops' = ops + 1
    /\ cur' = [cur EXCEPT ![p] =
                 Locals("save", SaveId(d, g), d, [d EXCEPT !.id = SaveId(d, g)],
                        FALSE, 0, Absent)]
    /\ pc' = [pc EXCEPT ![p] = "lock_open"]
    /\ stdout' = TRUE
    /\ UNCHANGED <<fsVars, fd, holds, tmp, exc, todo, acc, failed, index, stats, debug, run, log>>

\* Payloads of save_issue that are not dictionaries.
NonDicts == {"str", "list"}

\* save_issue(data) with a string or a list: the first statement,
\* print(... list(data.keys())), raises AttributeError before the
\* isinstance check is reached.
SaveIssueNonDict(p, v) ==
    /\ pc[p] = "idle"
    /\ ops' = ops + 1
    /\ log' = [log EXCEPT ![p] =
                 Append(@, Result(p, "save", NoKey, NullDoc, "AttributeError",
                                  "object has no attribute keys", NullDoc, FALSE, <<>>))]
    /\ UNCHANGED <<fsVars, pc, cur, fd, holds, tmp, exc, todo, acc, failed, index, stats, debug, run, stdout>>

\* save_issue after the with statement: return issue_id, or re-raise.
SaveReturn(p) ==
    /\ pc[p] = "ret"
    /\ cur[p].op = "save"
    /\ Return(p, Result(p, "save", cur[p].id, cur[p].arg,
                        IF exc[p].type = "none" THEN "ok" ELSE exc[p].type,
                        exc[p].why, cur[p].doc, FALSE, <<>>))
    /\ UNCHANGED <<fsVars, ops, fd, holds, tmp, todo, acc, failed, index, stats, debug, run, stdout>>

\* ------------------------------------------------------------ load_issue
\* load_issue up to the with statement: ensure_issues_directory, which
\* prints its "[DEBUG]" lines, and the existence check.
LoadIssue(p, i) ==
    /\ pc[p] = "idle"
    /\ ops' = ops + 1
    /\ IF files[i].kind = "absent"
       THEN /\ log' = [log EXCEPT ![p] =
                      Append(@, Result(p, "load", i, NullDoc, "StorageError",
                                       "Issue not found", NullDoc, FALSE, <<>>))]
            /\ UNCHANGED <<pc, cur>>
       ELSE /\ cur' = [cur EXCEPT ![p] = Locals("load", i, NullDoc, NullDoc, FALSE, 0, Absent)]
            /\ pc' = [pc EXCEPT ![p] = "lock_open"]
            /\ log' = log
    /\ stdout' = TRUE
    /\ UNCHANGED <<fsVars, fd, holds, tmp, exc, todo, acc, failed, index, stats, debug, run>>

\* (variant: the parsed map is returned as it is)
LoadReturnNoBackfill(p) ==
    /\ pc[p] = "ret"
    /\ cur[p].op = "load"
    /\ Return(p, IF exc[p].type = "none"
                 THEN Result(p, "load", cur[p].id, NullDoc, "ok", "none",
                             cur[p].doc, FALSE, <<>>)
                 ELSE Result(p, "load", cur[p].id, NullDoc, exc[p].type, exc[p].why,
                             NullDoc, FALSE, <<>>))
    /\ UNCHANGED <<fsVars, ops, fd, holds, tmp, todo, acc, failed, index, stats, debug, run, stdout>>

\* load_issue after the with statement: back-fill the id and return.
LoadReturn(p) ==
    /\ pc[p] = "ret"
    /\ cur[p].op = "load"
    /\ Return(p, IF exc[p].type = "none"
                 THEN Result(p, "load", cur[p].id, NullDoc, "ok", "none",
                             Backfill(cur[p].doc, cur[p].id), FALSE, <<>>)
                 ELSE Result(p, "load", cur[p].id, NullDoc, exc[p].type, exc[p].why,
                             NullDoc, FALSE, <<>>))
    /\ UNCHANGED <<fsVars, ops, fd, holds, tmp, todo, acc, failed, index, stats, debug, run, stdout>>

\* ---------------------------------------------------------- delete_issue
\* The states of .bugitrc and of its backup_on_delete preference: no file or
\* no such key ("unset"), the key set to true, false or null, a file that is
\* not valid JSON ("corrupt"), and a file that cannot be opened ("denied").
RcValues == {"unset", "true", "false", "null", "corrupt", "denied"}

\* load_config catches json.JSONDecodeError and FileNotFoundError only: any
\* other error of open() propagates out of get_config_value.
ConfigRaises(rc) == rc = "denied"

\* get_config_value("backup_on_delete"), with None replaced by True: the
\* default applies when the key is unset or the file is not valid JSON.
BackupSetting(rc) == rc # "false"

\* delete_issue up to the with statement: ensure_issues_directory, which
\* prints its "[DEBUG]" lines, and the existence check.
DeleteIssue(p, i) ==
    /\ pc[p] = "idle"
    /\ ops' = ops + 1
    /\ IF files[i].kind = "absent"
       THEN /\ log' = [log EXCEPT ![p] =
                      Append(@, Result(p, "delete", i, NullDoc, "ok", "none", NullDoc,
                                       FALSE, <<>>))]
            /\ UNCHANGED <<pc, cur>>
       ELSE /\ cur' = [cur EXCEPT ![p] = Locals("delete", i, NullDoc, NullDoc, FALSE, 0, Absent)]
            /\ pc' = [pc EXCEPT ![p] = "lock_open"]
            /\ log' = log
    /\ stdout' = TRUE
    /\ UNCHANGED <<fsVars, fd, holds, tmp, exc, todo, acc, failed, index, stats, debug, run>>

\* (variant: the copy is skipped although backups are enabled)
DeleteConfigNoCopy(p, rc) ==
    /\ pc[p] = "d_cfg"
    /\ IF ConfigRaises(rc)
       THEN /\ RaiseInBody(p, Exc("PermissionError", "Permission denied: .bugitrc"))
            /\ cur' = [cur EXCEPT ![p].rc = rc]
       ELSE /\ cur' = [cur EXCEPT ![p].bk = BackupSetting(rc), ![p].rc = rc]
            /\ pc' = [pc EXCEPT ![p] = "d_unlink"]
            /\ exc' = exc
    /\ UNCHANGED <<fsVars, ops, fd, holds, tmp, todo, acc, failed, index, stats, debug, run, stdout, log>>

\* backup_setting = get_config_value("backup_on_delete"), under the lock
DeleteConfig(p, rc) ==
    /\ pc[p] = "d_cfg"
    /\ IF ConfigRaises(rc)
       THEN /\ RaiseInBody(p, Exc("PermissionError", "Permission denied: .bugitrc"))
            /\ cur' = [cur EXCEPT ![p].rc = rc]
       ELSE /\ cur' = [cur EXCEPT ![p].bk = BackupSetting(rc), ![p].rc = rc]
            /\ pc' = [pc EXCEPT ![p] = IF BackupSetting(rc) THEN "d_copy" ELSE "d_unlink"]
            /\ exc' = exc
    /\ UNCHANGED <<fsVars, ops, fd, holds, tmp, todo, acc, failed, index, stats, debug, run, stdout, log>>

\* The backup times already read from the clock.
Stamps ==
    {k[2] : k \in {b \in DOMAIN backups : backups[b].kind # "absent"}}
        \cup {cur[p].bt : p \in Procs}

\* The values int(time.time()) can have now: the clock never runs backwards.
Now == {t \in Times : \A u \in Stamps : u <= t}

\* shutil.copy2 opens the record and creates <id>_<t>.json, t = int(time.time())
DeleteCopyOpen(p, t) ==
    /\ pc[p] = "d_copy"
    /\ LET i == cur[p].id
       IN  IF files[i].kind = "absent"
           THEN /\ RaiseInBody(p, Exc("FileNotFoundError", "No such file"))
                /\ UNCHANGED <<backups, cur>>
           ELSE /\ backups' = [backups EXCEPT ![<<i, t>>] = File("empty", files[i].doc)]
                /\ cur' = [cur EXCEPT ![p].bt = t, ![p].src = files[i]]
                /\ pc' = [pc EXCEPT ![p] = "d_copy2"]
                /\ exc' = exc
    /\ UNCHANGED <<files, lockPath, orphans, ops, fd, holds, tmp, todo,
                   acc, failed, index, stats, debug, run, stdout, log, written>>

\* shutil.copy2 copies the bytes of the open record into the backup file
DeleteCopyData(p) ==
    /\ pc[p] = "d_copy2"
    /\ backups' = [backups EXCEPT ![<<cur[p].id, cur[p].bt>>] = cur[p].src]
    /\ pc' = [pc EXCEPT ![p] = "d_unlink"]
    /\ UNCHANGED <<files, lockPath, orphans, ops, cur, fd, holds, tmp,
                   exc, todo, acc, failed, index, stats, debug, run, stdout, log, written>>

\* (variant: a failure of the copy is ignored and the record is removed)
DeleteCopyFailIgnored(p) ==
    /\ pc[p] \in {"d_copy", "d_copy2"}
    /\ pc' = [pc EXCEPT ![p] = "d_unlink"]
    /\ UNCHANGED <<files, lockPath, backups, orphans, ops, cur, fd, holds, tmp, exc,
                   todo, acc, failed, index, stats, debug, run, stdout, log, written>>

\* shutil.copy2 (or backup_dir.mkdir before it) raises: the device is full or
\* the backup directory cannot be written. What was created of the backup
\* file stays; the exception leaves the body of the with statement.
DeleteCopyFail(p) ==
    /\ pc[p] \in {"d_copy", "d_copy2"}
    /\ RaiseInBody(p, Exc("OSError", "No space left on device"))
    /\ UNCHANGED <<files, lockPath, backups, orphans, ops, cur, fd, holds, tmp,
                   todo, acc, failed, index, stats, debug, run, stdout, log, written>>

\* (variant: every record file is removed)
DeleteUnlinkAll(p) ==
    /\ pc[p] = "d_unlink"
    /\ IF files[cur[p].id].kind = "absent"
       THEN /\ RaiseInBody(p, Exc("FileNotFoundError", "No such file"))
            /\ files' = files
       ELSE /\ files' = [i \in Names |-> Absent]
            /\ pc' = [pc EXCEPT ![p] = "lock_release"]
            /\ exc' = exc
    /\ UNCHANGED <<lockPath, backups, orphans, ops, cur, fd, holds, tmp,
                   todo, acc, failed, index, stats, debug, run, stdout, log, written>>

\* (variant: the record file is left in place)
DeleteUnlinkKeep(p) ==
    /\ pc[p] = "d_unlink"
    /\ IF files[cur[p].id].kind = "absent"
       THEN RaiseInBody(p, Exc("FileNotFoundError", "No such file"))
       ELSE /\ pc' = [pc EXCEPT ![p] = "lock_release"]
            /\ exc' = exc
    /\ UNCHANGED <<fsVars, ops, cur, fd, holds, tmp, todo, acc, failed, index, stats, debug, run, stdout, log>>

\* issue_file.unlink()
DeleteUnlink(p) ==
    /\ pc[p] = "d_unlink"
    /\ LET i == cur[p].id
       IN  IF files[i].kind = "absent"
           THEN /\ RaiseInBody(p, Exc("FileNotFoundError", "No such file"))
                /\ files' = files
           ELSE /\ files' = [files EXCEPT ![i] = Absent]
                /\ pc' = [pc EXCEPT ![p] = "lock_release"]
                /\ exc' = exc
    /\ UNCHANGED <<lockPath, backups, orphans, ops, cur, fd, holds, tmp,
                   todo, acc, failed, index, stats, debug, run, stdout, log, written>>

\* delete_issue after the with statement: return True, or re-raise.
DeleteReturn(p) ==
    /\ pc[p] = "ret"
    /\ cur[p].op = "delete"
    /\ Return(p, IF exc[p].type = "none"
                 THEN Result(p, "delete", cur[p].id, NullDoc, "ok", "none", NullDoc, TRUE, <<>>)
                 ELSE Result(p, "delete", cur[p].id, NullDoc, exc[p].type, exc[p].why,
                             NullDoc, FALSE, <<>>))
    /\ UNCHANGED <<fsVars, ops, fd, holds, tmp, todo, acc, failed, index, stats, debug, run, stdout>>

\* ----------------------------------------------------------- list_issues
\* severity_order.get(issue.get("severity", "medium"), 2)
SeverityRank(s) ==
    CASE s = "critical" -> 0
      [] s = "high" -> 1
      [] s = "medium" -> 2
      [] s = "low" -> 3
      [] OTHER -> 2

\* datetime.fromisoformat(created_at).timestamp(), in days since the epoch;
\* a missing created_at is the epoch, an unparseable one falls back to 0.
Timestamp(c) ==
    CASE c = "2024-01-01" -> 19723
      [] c = "2024-01-02" -> 19724
      [] c = "1969-12-31" -> -1
      [] OTHER -> 0

\* (variant: the timestamp is not negated)
KeyLeqOldestFirst(a, b) ==
    \/ SeverityRank(a.severity) < SeverityRank(b.severity)
    \/ /\ SeverityRank(a.severity) = SeverityRank(b.severity)
       /\ Timestamp(a.created_at) <= Timestamp(b.created_at)

\* sort_key(a) <= sort_key(b) for the tuples (severity_rank, -timestamp)
KeyLeq(a, b) ==
    \/ SeverityRank(a.severity) < SeverityRank(b.severity)
    \/ /\ SeverityRank(a.severity) = SeverityRank(b.severity)
       /\ 0 - Timestamp(a.created_at) <= 0 - Timestamp(b.created_at)

\* x placed behind the elements of the sorted s that do not sort after it
RECURSIVE InsertSorted(_, _)
InsertSorted(x, s) ==
    IF s = <<>> THEN <<x>>
    ELSE IF KeyLeq(Head(s), x) THEN <<Head(s)>> \o InsertSorted(x, Tail(s))
    ELSE <<x>> \o s

\* issues.sort(key=sort_key): a stable sort
RECURSIVE SortIssues(_)
SortIssues(s) ==
    IF s = <<>> THEN <<>>
    ELSE InsertSorted(s[Len(s)], SortIssues(SubSeq(s, 1, Len(s) - 1)))

\* issues_dir.glob("*.json")
Glob == {i \in Names : files[i].kind # "absent" /\ ~HasSep(i)}

\* list_issues up to the loop: ensure_issues_directory, which prints its
\* "[DEBUG]" lines, and the directory scan.
ListIssues(p) ==
    /\ pc[p] = "idle"
    /\ ops' = ops + 1
    /\ IF Glob = {}
       THEN /\ log' = [log EXCEPT ![p] =
                      Append(@, Result(p, "list", NoKey, NullDoc, "ok", "none", NullDoc,
                                       FALSE, <<>>))]
            /\ UNCHANGED <<pc, cur, todo, acc, failed>>
       ELSE /\ todo' = [todo EXCEPT ![p] = Glob]
            /\ acc' = [acc EXCEPT ![p] = <<>>]
            /\ failed' = [failed EXCEPT ![p] = {}]
            /\ cur' = [cur EXCEPT ![p] = Locals("list", NoKey, NullDoc, NullDoc, FALSE, 0, Absent)]
            /\ pc' = [pc EXCEPT ![p] = "ls_next"]
            /\ log' = log
    /\ stdout' = TRUE
    /\ UNCHANGED <<fsVars, fd, holds, tmp, exc, index, stats, debug, run>>

\* for issue_file in issue_files: the next file, up to its with statement;
\* a file with ".tmp" in its name is skipped
ListNext(p, i) ==
    /\ pc[p] = "ls_next"
    /\ i \in todo[p]
    /\ todo' = [todo EXCEPT ![p] = @ \ {i}]
    /\ IF HasTmp(i)
       THEN UNCHANGED <<cur, pc>>
       ELSE /\ cur' = [cur EXCEPT ![p] = Locals("list", i, NullDoc, NullDoc, FALSE, 0, Absent)]
            /\ pc' = [pc EXCEPT ![p] = "lock_open"]
    /\ UNCHANGED <<fsVars, ops, fd, holds, tmp, exc, acc, failed, index, stats, debug, run, stdout, log>>

\* (variant: the document of a failed file is appended as well)
ListCollectKeepFailed(p) ==
    /\ pc[p] = "ret"
    /\ cur[p].op = "list"
    /\ acc' = [acc EXCEPT ![p] = Append(@, Backfill(cur[p].doc, cur[p].id))]
    /\ failed' = [failed EXCEPT ![p] =
                    IF exc[p].type = "none"
                    THEN @
                    ELSE @ \cup {[id |-> cur[p].id, why |-> exc[p].why]}]
    /\ exc' = [exc EXCEPT ![p] = NoExc]
    /\ pc' = [pc EXCEPT ![p] = "ls_next"]
    /\ UNCHANGED <<fsVars, ops, cur, fd, holds, tmp, todo, index, stats, debug, run, stdout, log>>

\* (variant: a failure on one file ends the listing with that error)
ListCollectPropagate(p) ==
    /\ pc[p] = "ret"
    /\ cur[p].op = "list"
    /\ IF exc[p].type = "none"
       THEN /\ acc' = [acc EXCEPT ![p] = Append(@, Backfill(cur[p].doc, cur[p].id))]
            /\ pc' = [pc EXCEPT ![p] = "ls_next"]
            /\ UNCHANGED <<exc, cur, log, todo, index, stats>>
       ELSE /\ Return(p, Result(p, "list", NoKey, NullDoc, exc[p].type, exc[p].why,
                                NullDoc, FALSE, <<>>))
            /\ acc' = [acc EXCEPT ![p] = <<>>]
            /\ todo' = [todo EXCEPT ![p] = {}]
            /\ index' = [index EXCEPT ![p] = 0]
            /\ stats' = [stats EXCEPT ![p] = FALSE]
    /\ UNCHANGED <<fsVars, ops, fd, holds, tmp, failed, debug, run, stdout>>

\* (variant: a file that could not be read is tried again)
ListCollectRetry(p) ==
    /\ pc[p] = "ret"
    /\ cur[p].op = "list"
    /\ acc' = [acc EXCEPT ![p] =
                 IF exc[p].type = "none"
                 THEN Append(@, Backfill(cur[p].doc, cur[p].id))
                 ELSE @]
    /\ todo' = [todo EXCEPT ![p] =
                  IF exc[p].type = "none" THEN @ ELSE @ \cup {cur[p].id}]
    /\ exc' = [exc EXCEPT ![p] = NoExc]
    /\ pc' = [pc EXCEPT ![p] = "ls_next"]
    /\ UNCHANGED <<fsVars, ops, cur, fd, holds, tmp, failed, index, stats, debug, run, stdout, log>>

\* the loop body after the with statement: append the document, or record
\* the failed file and continue
ListCollect(p) ==
    /\ pc[p] = "ret"
    /\ cur[p].op = "list"
    /\ acc' = [acc EXCEPT ![p] =
                 IF exc[p].type = "none"
                 THEN Append(@, Backfill(cur[p].doc, cur[p].id))
                 ELSE @]
    /\ failed' = [failed EXCEPT ![p] =
                    IF exc[p].type = "none"
                    THEN @
                    ELSE @ \cup {[id |-> cur[p].id, why |-> exc[p].why]}]
    /\ exc' = [exc EXCEPT ![p] = NoExc]
    /\ pc' = [pc EXCEPT ![p] = "ls_next"]
    /\ UNCHANGED <<fsVars, ops, cur, fd, holds, tmp, todo, index, stats, debug, run, stdout, log>>

\* after the loop: sort, report the failed files on standard output when
\* BUGIT_DEBUG is set, and return
ListReturn(p) ==
    /\ pc[p] = "ls_next"
    /\ todo[p] = {}
    /\ index[p] = 0
    /\ ~stats[p]
    /\ Return(p, Result(p, "list", NoKey, NullDoc, "ok", "none", NullDoc, FALSE,
                        SortIssues(acc[p])))
    /\ acc' = [acc EXCEPT ![p] = <<>>]
    /\ failed' = [failed EXCEPT ![p] = {}]
    /\ stdout' = (stdout \/ (failed[p] # {} /\ debug))
    /\ UNCHANGED <<fsVars, ops, fd, holds, tmp, todo, index, stats, debug, run>>

\* ---------------------------------------------------- get_issue_by_index
\* The index arguments: below, inside and beyond the positions of a listing.
Indexes == (0 - 1)..(Cardinality(Ids) + 1)

\* The outcome of get_issue_by_index(n); docs is the listing it worked with.
IndexResult(p, n, s, w, d, l) ==
    [proc |-> p, op |-> "index", index |-> n, id |-> NoKey, arg |-> NullDoc,
     status |-> s, why |-> w, doc |-> d, flag |-> FALSE, docs |-> l]

\* get_issue_by_index up to the loop of the list_issues() it calls: the
\* index check, and the directory scan of list_issues.
GetIssueByIndex(p, n) ==
    /\ pc[p] = "idle"
    /\ ops' = ops + 1
    /\ IF n < 1
       THEN /\ log' = [log EXCEPT ![p] =
                      Append(@, IndexResult(p, n, "StorageError", "Invalid index",
                                            NullDoc, <<>>))]
            /\ UNCHANGED <<pc, cur, todo, acc, failed, index, stdout>>
       ELSE IF Glob = {}
       THEN /\ log' = [log EXCEPT ![p] =
                      Append(@, IndexResult(p, n, "StorageError", "Index out of range",
                                            NullDoc, <<>>))]
            /\ stdout' = TRUE
            /\ UNCHANGED <<pc, cur, todo, acc, failed, index>>
       ELSE /\ todo' = [todo EXCEPT ![p] = Glob]
            /\ acc' = [acc EXCEPT ![p] = <<>>]
            /\ failed' = [failed EXCEPT ![p] = {}]
            /\ index' = [index EXCEPT ![p] = n]
            /\ cur' = [cur EXCEPT ![p] = Locals("list", NoKey, NullDoc, NullDoc, FALSE, 0, Absent)]
            /\ pc' = [pc EXCEPT ![p] = "ls_next"]
            /\ stdout' = TRUE
            /\ log' = log
    /\ UNCHANGED <<fsVars, fd, holds, tmp, exc, stats, debug, run>>

\* (variant: the 1-based index is used as a 0-based position)
IndexReturnZeroBased(p) ==
    /\ pc[p] = "ls_next"
    /\ todo[p] = {}
    /\ index[p] # 0
    /\ LET issues == SortIssues(acc[p])
           n == index[p]
       IN  Return(p, IF n + 1 > Len(issues)
                     THEN IndexResult(p, n, "StorageError", "Index out of range",
                                      NullDoc, issues)
                     ELSE IndexResult(p, n, "ok", "none", issues[n + 1], issues))
    /\ acc' = [acc EXCEPT ![p] = <<>>]
    /\ failed' = [failed EXCEPT ![p] = {}]
    /\ index' = [index EXCEPT ![p] = 0]
    /\ stdout' = (stdout \/ (failed[p] # {} /\ debug))
    /\ UNCHANGED <<fsVars, ops, fd, holds, tmp, todo, stats, debug, run>>

\* (variant: the listing of an earlier call is kept and used again)
IndexReturnStale(p) ==
    /\ pc[p] = "ls_next"
    /\ todo[p] = {}
    /\ index[p] # 0
    /\ LET prev == {k \in 1..Len(log[p]) : log[p][k].op = "index" /\ log[p][k].status = "ok"}
           issues == IF prev # {} THEN log[p][CHOOSE k \in prev : TRUE].docs
                     ELSE SortIssues(acc[p])
           n == index[p]
       IN  Return(p, IF n > Len(issues)
                     THEN IndexResult(p, n, "StorageError", "Index out of range",
                                      NullDoc, issues)
                     ELSE IndexResult(p, n, "ok", "none", issues[n], issues))
    /\ acc' = [acc EXCEPT ![p] = <<>>]
    /\ failed' = [failed EXCEPT ![p] = {}]
    /\ index' = [index EXCEPT ![p] = 0]
    /\ stdout' = (stdout \/ (failed[p] # {} /\ debug))
    /\ UNCHANGED <<fsVars, ops, fd, holds, tmp, todo, stats, debug, run>>

\* list_issues() returns to get_issue_by_index: the range check, and
\* issues[index - 1]
IndexReturn(p) ==
    /\ pc[p] = "ls_next"
    /\ todo[p] = {}
    /\ index[p] # 0
    /\ LET issues == SortIssues(acc[p])
           n == index[p]
       IN  Return(p, IF n > Len(issues)
                     THEN IndexResult(p, n, "StorageError", "Index out of range",
                                      NullDoc, issues)
                     ELSE IndexResult(p, n, "ok", "none", issues[n], issues))
    /\ acc' = [acc EXCEPT ![p] = <<>>]
    /\ failed' = [failed EXCEPT ![p] = {}]
    /\ index' = [index EXCEPT ![p] = 0]
    /\ stdout' = (stdout \/ (failed[p] # {} /\ debug))
    /\ UNCHANGED <<fsVars, ops, fd, holds, tmp, todo, stats, debug, run>>

\* ----------------------------------------------------- get_storage_stats
Severities == {"low", "medium", "high", "critical"}

\* severity_counts after the loop over issues: a record without a severity
\* counts as medium, one with an unknown severity is not counted.
SeverityCounts(l) ==
    [v \in Severities |->
        Cardinality({k \in 1..Len(l) :
                        (IF l[k].severity = NoKey THEN "medium" ELSE l[k].severity) = v})]

\* issue_file.stat().st_size, counted in the keys the stored map holds
FileSize(f) ==
    IF f.kind = "json" THEN Cardinality({k \in DOMAIN f.doc : f.doc[k] # NoKey}) ELSE 0

\* total_size after the loop over issues: for each listed document with an
\* id, the size of <id>.json if that file exists
RECURSIVE TotalSize(_)
TotalSize(l) ==
    IF l = <<>> THEN 0
    ELSE (IF Truthy(Head(l).id) /\ files[Head(l).id].kind # "absent"
          THEN FileSize(files[Head(l).id]) ELSE 0) + TotalSize(Tail(l))

\* The aggregate get_storage_stats returns: why is the error field ("none"
\* when there is none), total is total_issues, size is total_size_bytes in
\* files, by is issues_by_severity; or the exception it raises.
StatsResult(p, s, w, l, n, z, c) ==
    [proc |-> p, op |-> "stats", id |-> NoKey, arg |-> NullDoc, status |-> s,
     why |-> w, doc |-> NullDoc, flag |-> FALSE, docs |-> l,
     total |-> n, size |-> z, by |-> c]

\* The aggregate of the except clause.
StatsError(p, w) ==
    StatsResult(p, "ok", w, <<>>, 0, 0, [v \in Severities |-> 0])

\* get_storage_stats up to the loop of the list_issues() it calls
GetStorageStats(p) ==
    /\ pc[p] = "idle"
    /\ ops' = ops + 1
    /\ stdout' = TRUE
    /\ IF Glob = {}
       THEN /\ log' = [log EXCEPT ![p] =
                      Append(@, StatsResult(p, "ok", "none", <<>>, 0, 0,
                                            [v \in Severities |-> 0]))]
            /\ UNCHANGED <<pc, cur, todo, acc, failed, stats>>
       ELSE /\ todo' = [todo EXCEPT ![p] = Glob]
            /\ acc' = [acc EXCEPT ![p] = <<>>]
            /\ failed' = [failed EXCEPT ![p] = {}]
            /\ stats' = [stats EXCEPT ![p] = TRUE]
            /\ cur' = [cur EXCEPT ![p] = Locals("list", NoKey, NullDoc, NullDoc, FALSE, 0, Absent)]
            /\ pc' = [pc EXCEPT ![p] = "ls_next"]
            /\ log' = log
    /\ UNCHANGED <<fsVars, fd, holds, tmp, exc, index, debug, run>>

\* issues_dir = ensure_issues_directory() raises (the directory cannot be
\* created): the call stands before the try statement, so the error
\* propagates to the caller.
GetStorageStatsDirFail(p) ==
    /\ pc[p] = "idle"
    /\ ops' = ops + 1
    /\ stdout' = TRUE
    /\ log' = [log EXCEPT ![p] =
                 Append(@, StatsResult(p, "PermissionError", "Permission denied: .bugit",
                                       <<>>, 0, 0, [v \in Severities |-> 0]))]
    /\ UNCHANGED <<fsVars, pc, cur, fd, holds, tmp, exc, todo, acc, failed, index,
                   stats, debug, run>>

\* list_issues() returns to get_storage_stats: the counts and the sizes
StatsReturn(p) ==
    /\ pc[p] = "ls_next"
    /\ todo[p] = {}
    /\ stats[p]
    /\ LET issues == SortIssues(acc[p])
       IN  Return(p, StatsResult(p, "ok", "none", issues, Len(issues),
                                 TotalSize(issues),
                                 SeverityCounts(issues)))
    /\ acc' = [acc EXCEPT ![p] = <<>>]
    /\ failed' = [failed EXCEPT ![p] = {}]
    /\ stats' = [stats EXCEPT ![p] = FALSE]
    /\ stdout' = (stdout \/ (failed[p] # {} /\ debug))
    /\ UNCHANGED <<fsVars, ops, fd, holds, tmp, todo, index, debug, run>>

\* issue_file.stat() raises inside the try statement: the except clause
\* returns the aggregate with the error field.
StatsFail(p) ==
    /\ pc[p] = "ls_next"
    /\ todo[p] = {}
    /\ stats[p]
    /\ acc[p] # <<>>
    /\ Return(p, StatsError(p, "stat failed"))
    /\ acc' = [acc EXCEPT ![p] = <<>>]
    /\ failed' = [failed EXCEPT ![p] = {}]
    /\ stats' = [stats EXCEPT ![p] = FALSE]
    /\ stdout' = (stdout \/ (failed[p] # {} /\ debug))
    /\ UNCHANGED <<fsVars, ops, fd, holds, tmp, todo, index, debug, run>>

\* ------------------------------------------- core/model.py: the retry loop
\* The values of retry_limit in the configuration, the structured results an
\* attempt can produce and the errors it can fail with.
RetryLimits == 0..MaxRetries
Analyses == {"r1", "r2"}
Failures == {"timeout", "Invalid JSON response from LLM"}

\* The message of the ModelError that handle_retry_logic raises.
FailedAfter(m, e) == [text |-> "LLM processing failed after retries", retries |-> m, last |-> e]

\* The outcome of a run is recorded and the graph is left.
Finish(o, v, w) == run' = [run EXCEPT !.node = "idle", !.out = o, !.ret = v, !.msg = w]

\* process_description up to graph.invoke: the checks of the description and
\* of the API key, and the initial ProcessingState with max_retries taken
\* from the configuration.
ProcessDescription(empty, key, m) ==
    /\ run.node = "idle"
    /\ IF empty
       THEN run' = RunState("idle", 0, 0, "none", "none", 0, "ModelError", "none",
                            "Description cannot be empty")
       ELSE IF ~key
       THEN run' = RunState("idle", 0, 0, "none", "none", 0, "ModelError", "none",
                            "OpenAI API key not configured")
       ELSE run' = RunState("analyze", 0, m, "none", "none", 0, "none", "none", "none")
    /\ UNCHANGED <<fsVars, ops, pc, cur, fd, holds, tmp, exc, todo, acc, failed, index,
                   stats, debug, stdout, log>>

\* analyze_bug_description: the LLM answers with JSON that validates
AnalyzeOk(r) ==
    /\ run.node = "analyze"
    /\ run' = [run EXCEPT !.result = r, !.error = "none", !.attempts = @ + 1,
                          !.node = "should_retry"]
    /\ UNCHANGED <<fsVars, ops, pc, cur, fd, holds, tmp, exc, todo, acc, failed, index,
                   stats, debug, stdout, log>>

\* analyze_bug_description: any exception is stored in error_message
AnalyzeFail(e) ==
    /\ run.node = "analyze"
    /\ run' = [run EXCEPT !.error = e, !.attempts = @ + 1, !.node = "should_retry"]
    /\ UNCHANGED <<fsVars, ops, pc, cur, fd, holds, tmp, exc, todo, acc, failed, index,
                   stats, debug, stdout, log>>

\* should_retry and the conditional edges out of analyze
ShouldRetry ==
    /\ run.node = "should_retry"
    /\ run' = [run EXCEPT !.node =
                 IF run.result # "none" THEN "end"
                 ELSE IF run.error # "none" THEN "handle_retry"
                 ELSE "analyze"]
    /\ UNCHANGED <<fsVars, ops, pc, cur, fd, holds, tmp, exc, todo, acc, failed, index,
                   stats, debug, stdout, log>>

\* (variant: the retry count is not incremented)
HandleRetryNoCount ==
    /\ run.node = "handle_retry"
    /\ IF run.retry_count < run.max_retries
       THEN run' = [run EXCEPT !.error = "none", !.node = "analyze"]
       ELSE Finish("ModelError", "none", FailedAfter(run.max_retries, run.error))
    /\ UNCHANGED <<fsVars, ops, pc, cur, fd, holds, tmp, exc, todo, acc, failed, index,
                   stats, debug, stdout, log>>

\* handle_retry_logic, and the edge back to analyze; its ModelError passes
\* through process_description
HandleRetry ==
    /\ run.node = "handle_retry"
    /\ IF run.retry_count < run.max_retries
       THEN run' = [run EXCEPT !.retry_count = @ + 1, !.error = "none", !.node = "analyze"]
       ELSE Finish("ModelError", "none", FailedAfter(run.max_retries, run.error))
    /\ UNCHANGED <<fsVars, ops, pc, cur, fd, holds, tmp, exc, todo, acc, failed, index,
                   stats, debug, stdout, log>>

\* END: graph.invoke returns and process_description returns
\* processed_result, or raises when there is none
GraphEnd ==
    /\ run.node = "end"
    /\ IF run.result = "none"
       THEN Finish("ModelError", "none", "Processing failed")
       ELSE Finish("ok", run.result, "none")
    /\ UNCHANGED <<fsVars, ops, pc, cur, fd, holds, tmp, exc, todo, acc, failed, index,
                   stats, debug, stdout, log>>

\* ------------------------------------------------------------ environment
\* The process is killed: the kernel closes its descriptors, which drops
\* its flock; the files it created stay on disk.
Crash(p) ==
    /\ pc[p] # "idle"
    /\ orphans' = IF tmp[p].kind # "absent" THEN orphans \cup {cur[p].id} ELSE orphans
    /\ tmp' = [tmp EXCEPT ![p] = Absent]
    /\ fd' = [fd EXCEPT ![p] = 0]
    /\ holds' = [holds EXCEPT ![p] = FALSE]
    /\ exc' = [exc EXCEPT ![p] = NoExc]
    /\ cur' = [cur EXCEPT ![p] = NoCall]
    /\ todo' = [todo EXCEPT ![p] = {}]
    /\ acc' = [acc EXCEPT ![p] = <<>>]
    /\ failed' = [failed EXCEPT ![p] = {}]
    /\ index' = [index EXCEPT ![p] = 0]
    /\ stats' = [stats EXCEPT ![p] = FALSE]
    /\ pc' = [pc EXCEPT ![p] = "idle"]
    /\ UNCHANGED <<files, lockPath, backups, ops, log, written, debug, run, stdout>>

\* --------------------------------------------------------- specifications
\* A caller starts a repository operation.
Call(p) ==
    \/ \E d \in Docs, g \in Ids : SaveIssue(p, d, g)
    \/ \E v \in NonDicts : SaveIssueNonDict(p, v)
    \/ \E i \in Ids : LoadIssue(p, i)
    \/ \E i \in Ids : DeleteIssue(p, i)
    \/ ListIssues(p)
    \/ \E n \in Indexes : GetIssueByIndex(p, n)

\* A running operation takes a step that needs no other process.
Work(p) ==
    \/ LockOpen(p)
    \/ LockOpenFail(p)
    \/ LockAcquire(p)
    \/ LockFlockFail(p)
    \/ LockRelease(p)
    \/ LockUnlink(p)
    \/ WriteMkstemp(p)
    \/ WriteDump(p)
    \/ WriteFsync(p)
    \/ WriteReplace(p)
    \/ WriteFail(p)
    \/ ReadJsonFile(p)
    \/ SaveReturn(p)
    \/ LoadReturn(p)
    \/ \E rc \in RcValues : DeleteConfig(p, rc)
    \/ \E t \in Now : DeleteCopyOpen(p, t)
    \/ DeleteCopyData(p)
    \/ DeleteCopyFail(p)
    \/ DeleteUnlink(p)
    \/ DeleteReturn(p)
    \/ \E i \in Names : ListNext(p, i)
    \/ ListCollect(p)
    \/ ListReturn(p)
    \/ IndexReturn(p)

\* A running operation takes its next step; waiting for a lock that another
\* process holds can end in the timeout.
Step(p) ==
    \/ Work(p)
    \/ LockTimeout(p)

\* Concurrent processes, MaxOps calls in all.
Next ==
    \/ \E p \in Procs : ops < MaxOps /\ Call(p)
    \/ \E p \in Procs : Step(p)

Spec == Init /\ [][Next]_vars

\* The same with processes that can be killed at any point.
NextCrash ==
    \/ Next
    \/ \E p \in Procs : Crash(p)

SpecCrash == Init /\ [][NextCrash]_vars

\* Writers of the records, MaxLockOps calls in all.
StepLock(p) ==
    \/ LockOpen(p)
    \/ LockOpenFail(p)
    \/ LockAcquire(p)
    \/ LockFlockFail(p)
    \/ LockTimeout(p)
    \/ LockRelease(p)
    \/ LockUnlink(p)
    \/ WriteMkstemp(p)
    \/ WriteDump(p)
    \/ WriteFsync(p)
    \/ WriteReplace(p)
    \/ WriteFail(p)
    \/ SaveReturn(p)

NextLock ==
    \/ \E p \in Procs, d \in Docs, g \in Ids : ops < MaxLockOps /\ SaveIssue(p, d, g)
    \/ \E p \in Procs : StepLock(p)

SpecLock == Init /\ [][NextLock]_vars

\* A delete_issue of process 1 and the save_issue calls made while and after
\* it runs, MaxDelOps calls in all.
StepDel(p) ==
    \/ StepLock(p)
    \/ \E rc \in RcValues : DeleteConfig(p, rc)
    \/ \E t \in Now : DeleteCopyOpen(p, t)
    \/ DeleteCopyData(p)
    \/ DeleteCopyFail(p)
    \/ DeleteUnlink(p)
    \/ DeleteReturn(p)

NextDel ==
    \/ \E i \in Ids : ops = 0 /\ DeleteIssue(1, i)
    \/ \E p \in Procs, d \in Docs, g \in Ids :
          ops > 0 /\ ops < MaxDelOps /\ SaveIssue(p, d, g)
    \/ \E p \in Procs : StepDel(p)

SpecDel == Init /\ [][NextDel]_vars

\* One caller that saves and deletes records, one call at a time, MaxBakOps
\* calls in all.
WorkBak(p) ==
    \/ LockOpen(p)
    \/ LockOpenFail(p)
    \/ LockAcquire(p)
    \/ LockFlockFail(p)
    \/ LockRelease(p)
    \/ LockUnlink(p)
    \/ WriteMkstemp(p)
    \/ WriteDump(p)
    \/ WriteFsync(p)
    \/ WriteReplace(p)
    \/ WriteFail(p)
    \/ SaveReturn(p)
    \/ \E rc \in RcValues : DeleteConfig(p, rc)
    \/ \E t \in Now : DeleteCopyOpen(p, t)
    \/ DeleteCopyData(p)
    \/ DeleteCopyFail(p)
    \/ DeleteUnlink(p)
    \/ DeleteReturn(p)

NextBak ==
    \/ \E d \in Docs, g \in Ids : ops < MaxBakOps /\ SaveIssue(1, d, g)
    \/ \E i \in Ids : ops < MaxBakOps /\ DeleteIssue(1, i)
    \/ WorkBak(1)

SpecBak == Init /\ [][NextBak]_vars

\* One caller that looks records up by index before and after it saves or
\* deletes a record, MaxIdxOps calls in all.
WorkIdx(p) ==
    \/ WorkBak(p)
    \/ ReadJsonFile(p)
    \/ \E i \in Names : ListNext(p, i)
    \/ ListCollect(p)
    \/ IndexReturn(p)

NextIdx ==
    \/ \E n \in Indexes : ops < MaxIdxOps /\ ops % 2 = 0 /\ GetIssueByIndex(1, n)
    \/ \E d \in Docs, g \in Ids : ops < MaxIdxOps /\ ops % 2 = 1 /\ SaveIssue(1, d, g)
    \/ \E i \in Ids : ops < MaxIdxOps /\ ops % 2 = 1 /\ DeleteIssue(1, i)
    \/ WorkIdx(1)

SpecIdx == Init /\ [][NextIdx]_vars

\* Concurrent save, load, delete and list calls on a store that holds both
\* records, MaxOps calls in all, each process scheduled again and again: a
\* process that can take a step (the next statement of its call, or the
\* timeout of the flock loop) takes one.
InitLive ==
    /\ Init
    /\ \A i \in Ids : files[i].kind = "json"
    /\ files["a1"].doc.severity = "low"

CallLive(p) ==
    \/ \E d \in Docs : SaveIssue(p, d, "b2")
    \/ \E i \in Ids : LoadIssue(p, i)
    \/ \E i \in Ids : DeleteIssue(p, i)
    \/ ListIssues(p)

StepLive(p) ==
    \/ WorkBak(p)
    \/ LockTimeout(p)
    \/ ReadJsonFile(p)
    \/ LoadReturn(p)
    \/ \E i \in Names : ListNext(p, i)
    \/ ListCollect(p)
    \/ ListReturn(p)

NextLive ==
    \/ \E p \in Procs : ops < MaxOps /\ CallLive(p)
    \/ \E p \in Procs : StepLive(p)

SpecLive == InitLive /\ [][NextLive]_vars /\ \A p \in Procs : WF_vars(StepLive(p))

\* One caller, one call at a time, MaxSeqOps calls in all.
NextSeq ==
    \/ ops < MaxSeqOps /\ Call(1)
    \/ Work(1)

SpecSeq == Init /\ [][NextSeq]_vars

\* The same caller on a store that may hold damaged files.
SpecDirty == InitDirty /\ [][NextSeq]_vars

\* One caller of every operation, with BUGIT_DEBUG set or not, on a store
\* that may hold damaged files; MaxSeqOps calls in all.
InitRepo ==
    /\ files \in DirtyStores
    /\ written = [i \in Names |-> IF files[i].kind = "json" THEN {files[i].doc} ELSE {}]
    /\ Quiescent
    /\ debug \in BOOLEAN

NextRepo ==
    \/ ops < MaxSeqOps /\ Call(1)
    \/ ops < MaxSeqOps /\ GetStorageStats(1)
    \/ ops < MaxSeqOps /\ GetStorageStatsDirFail(1)
    \/ Work(1)
    \/ StatsReturn(1)
    \/ StatsFail(1)

SpecRepo == InitRepo /\ [][NextRepo]_vars

\* Record files written by hand or by a caller that did not validate them:
\* creation times before 1970 or not in ISO format, a severity outside the
\* four known ones, an id that differs from the file name.
HandDocs ==
    [a1 |-> { Doc("a1", "t5", "medium", "1969-12-31", NoKey),
              Doc("a1", "t6", "urgent", "2024-01-01", NoKey),
              Doc("b2", "t7", "medium", "2024-01-01", "list") },
     b2 |-> { Doc("b2", "t8", "medium", "not-a-date", NoKey),
              Doc("b2", "t9", "medium", NoKey, "list") }]

HandStores ==
    { f \in [Names -> {Absent} \cup {File("json", JsonDump(d)) : d \in HandDocs.a1 \cup HandDocs.b2}] :
        /\ f["a1"].kind = "json" /\ JsonLoad(f["a1"].doc) \in HandDocs.a1
        /\ f["b2"].kind = "json" => JsonLoad(f["b2"].doc) \in HandDocs.b2
        /\ \A i \in OddIds : f[i] = Absent }

\* One caller of every operation on such a store, MaxSeqOps calls in all.
InitHand ==
    /\ files \in HandStores
    /\ written = [i \in Names |-> IF files[i].kind = "json" THEN {files[i].doc} ELSE {}]
    /\ Quiescent
    /\ debug = FALSE

SpecHand == InitHand /\ [][NextRepo]_vars

\* Runs of process_description, one after the other.
NextRetry ==
    \/ \E empty, key \in BOOLEAN, m \in RetryLimits : ProcessDescription(empty, key, m)
    \/ \E r \in Analyses : AnalyzeOk(r)
    \/ \E e \in Failures : AnalyzeFail(e)
    \/ ShouldRetry
    \/ HandleRetry
    \/ GraphEnd

SpecRetry == Init /\ [][NextRetry]_vars

\* One caller that also uses the ids of OddIds, MaxSeqOps calls in all.
CallNames(p) ==
    \/ \E d \in OddDocs, g \in Ids : SaveIssue(p, d, g)
    \/ \E i \in Names : LoadIssue(p, i)
    \/ \E i \in Names : DeleteIssue(p, i)
    \/ ListIssues(p)
    \/ \E n \in Indexes : GetIssueByIndex(p, n)

NextNames ==
    \/ ops < MaxSeqOps /\ CallNames(1)
    \/ Work(1)

SpecNames == Init /\ [][NextNames]_vars

\* ------------------------------------------------------------ properties
\* The positions inside the with-body of file_lock.
BodyPcs == {"w_mkstemp", "w_dump", "w_fsync", "w_replace", "r_read",
            "d_cfg", "d_copy", "d_copy2", "d_unlink"}

\* Process p is inside the critical section for the record cur[p].id.
InCS(p) == pc[p] \in BodyPcs

\* The outcomes logged for process p.
Entries(p) == {log[p][k] : k \in 1..Len(log[p])}

Returned(e, o) == e.op = o /\ e.status = "ok"

\* C1: at most one process is inside the critical section of file_lock for
\* one record path at any time.
C1_MutualExclusion ==
    \A p, q \in Procs : (p # q /\ InCS(p) /\ InCS(q)) => cur[p].id # cur[q].id

\* C2: when two save_issue calls of two processes on one id are the only
\* calls made and both have returned, the record file holds the complete
\* serialisation of one of the two payloads.
C2_TwoSaves ==
    \A p, q \in Procs :
        (/\ p # q
         /\ ops = 2
         /\ Len(log[p]) = 1 /\ Returned(log[p][1], "save")
         /\ Len(log[q]) = 1 /\ Returned(log[q][1], "save")
         /\ log[p][1].id = log[q][1].id)
        => files[log[p][1].id] \in {File("json", JsonDump(log[p][1].doc)),
                                    File("json", JsonDump(log[q][1].doc))}

C2_Witness ==
    \E p, q \in Procs :
        /\ p # q
        /\ Len(log[p]) = 1 /\ Returned(log[p][1], "save")
        /\ Len(log[q]) = 1 /\ Returned(log[q][1], "save")
        /\ log[p][1].id = log[q][1].id
        /\ log[p][1].doc # log[q][1].doc
        /\ files[log[p][1].id] = File("json", JsonDump(log[q][1].doc))

\* C3: the file at a record path is absent or a complete serialisation that
\* a writer renamed onto it, in every state, also when writers are killed
\* between any two steps of atomic_write_json.
C3_Atomicity ==
    \A i \in Ids :
        \/ files[i].kind = "absent"
        \/ files[i].kind = "json" /\ files[i].doc \in written[i]

C3_Witness ==
    \E i \in orphans : files[i].kind = "json" /\ Cardinality(written[i]) = 1

\* C4: a document returned by load_issue or list_issues is a complete
\* payload that save_issue wrote for that id, and no read of a record file
\* finds it partially written.
C4_NoPartialRead ==
    /\ \A p \in Procs : exc[p].why # "Invalid JSON"
    /\ \A p \in Procs : \A e \in Entries(p) :
        /\ e.why # "Invalid JSON"
        /\ Returned(e, "load") => JsonDump(e.doc) \in written[e.id]
        /\ Returned(e, "list") =>
             \A k \in 1..Len(e.docs) : JsonDump(e.docs[k]) \in written[e.docs[k].id]

C4_Witness ==
    \E p, q \in Procs :
        /\ p # q
        /\ Len(log[q]) = 1 /\ Returned(log[q][1], "save")
        /\ Len(log[p]) = 1 /\ Returned(log[p][1], "list")
        /\ Len(log[p][1].docs) = 2
        /\ \E k \in 1..2 : log[p][1].docs[k] = JsonLoad(JsonDump(log[q][1].doc))
        /\ Cardinality(written[log[q][1].id]) = 2

\* C5: once the with-block of file_lock has ended (normally, by an exception
\* of the body or by a timeout), the process has no lock and no descriptor,
\* so every lock that is held belongs to a process still in its with-block.
C5_ReleasedOnExit ==
    \A p \in Procs :
        pc[p] \notin BodyPcs \cup {"lock_try", "lock_release"}
            => ~holds[p] /\ fd[p] = 0

C5_Witness ==
    \E p, q \in Procs :
        /\ pc[p] = "ret" /\ exc[p].why = "Atomic write failed"
        /\ pc[q] = "ret" /\ exc[q].type = "ConcurrentAccessError"
        /\ cur[p].id = cur[q].id

\* The messages of the failures of file_lock itself.
LockFaults == {"File locking failed", "Could not acquire lock"}

\* The message of a failure to read the preferences file.
ConfigFaults == {"Permission denied: .bugitrc"}

\* What a failure to write the backup raises.
BackupFaults == {"No space left on device"}

\* Documents whose values json represents as they are (no tuples).
JsonNative(d) == d.tags # "tuple"

C7_FreshIdUnique ==
    [][\A p \in Procs :
         (pc[p] = "idle" /\ pc'[p] = "lock_open" /\ cur'[p].op = "save"
            /\ ~Truthy(cur'[p].arg.id))
         => files[cur'[p].id].kind = "absent"]_vars

\* No save_issue of the id i has returned between entries k and j of the log.
NotSavedBetween(i, k, j) ==
    \A m \in (k + 1)..(j - 1) : ~(Returned(log[1][m], "save") /\ log[1][m].id = i)

\* C8: delete_issue of a record just saved returns true; after a delete that
\* returned true, and until the id is saved again, load_issue fails with
\* not-found and delete_issue returns false.
C8_DeleteThenLoad ==
    \A k, j \in 1..Len(log[1]) :
        LET a == log[1][k]
            b == log[1][j]
        IN  /\ (j = k + 1 /\ Returned(a, "save") /\ b.op = "delete" /\ b.id = a.id)
                => \/ b.status = "ok" /\ b.flag
                   \/ b.why \in LockFaults \cup ConfigFaults \cup BackupFaults
            /\ (k < j /\ Returned(a, "delete") /\ a.flag /\ b.id = a.id
                  /\ NotSavedBetween(a.id, k, j))
                => /\ b.op = "load" => b.status = "StorageError" /\ b.why = "Issue not found"
                   /\ b.op = "delete" => b.status = "ok" /\ ~b.flag

C8_Witness ==
    /\ Len(log[1]) = 2
    /\ Returned(log[1][1], "delete") /\ log[1][1].flag
    /\ log[1][2].op = "load" /\ log[1][2].id = log[1][1].id
    /\ log[1][2].why = "Issue not found"

\* C9: of the delete_issue calls of different processes on one record, none
\* raises because another one removed the record first, and at most one
\* returns true.
C9_ConcurrentDeletes ==
    \A p, q \in Procs : \A d \in Entries(p), e \in Entries(q) :
        (p # q /\ ops = 2 /\ d.op = "delete" /\ e.op = "delete" /\ d.id = e.id)
        => /\ d.why # "No such file"
           /\ ~(d.flag /\ e.flag)

\* Process p runs a delete_issue with backups enabled and has removed the record.
RemovedWithBackup(p) ==
    /\ cur[p].op = "delete"
    /\ cur[p].bk
    /\ pc[p] \in {"lock_release", "lock_unlink", "ret"}
    /\ exc[p].type = "none"

\* C10: with backups enabled, once delete_issue has removed the record file
\* the backup file it wrote exists.
C10_BackupBeforeRemoval ==
    \A p \in Procs :
        RemovedWithBackup(p) => backups[<<cur[p].id, cur[p].bt>>].kind # "absent"

C10_Witness ==
    \E p \in Procs :
        /\ RemovedWithBackup(p)
        /\ pc[p] = "lock_release"
        /\ files[cur[p].id].kind = "absent"
        /\ backups[<<cur[p].id, cur[p].bt>>] = cur[p].src

\* C11: with backups enabled, at the moment delete_issue removes the record
\* file the backup file it wrote equals the content the record file has.
C11_BackupFidelity ==
    [][\A p \in Procs :
         (/\ pc[p] = "d_unlink" /\ pc'[p] = "lock_release"
          /\ exc'[p].type = "none" /\ cur[p].bk)
         => backups[<<cur[p].id, cur[p].bt>>] = files[cur[p].id]]_vars

\* The record files that hold a complete document, and their documents as
\* read_json_file and the back-fill of the id deliver them.
ValidIds == {i \in Ids : files[i].kind = "json"}
ValidDocs == {Backfill(JsonLoad(files[i].doc), i) : i \in ValidIds}

\* Process p returns from a call of operation o in this step.
Returns(p, o) ==
    /\ Len(log'[p]) = Len(log[p]) + 1
    /\ log'[p][Len(log'[p])].op = o

\* No file of the running list_issues failed on the lock itself.
NoLockFault(p) == \A f \in failed[p] : f.why \notin LockFaults

Parses(c) == c \in {"2024-01-01", "2024-01-02", "1969-12-31"}

\* C13: in every listing, each document is followed by one of a later
\* severity rank (critical, high, medium, low) or of the same rank and a
\* creation time that is not later.
C13_Ordering ==
    \A p \in Procs : \A e \in Entries(p) :
        e.op \in {"list", "index"} =>
            \A k \in 1..(Len(e.docs) - 1) :
                LET a == e.docs[k]
                    b == e.docs[k + 1]
                IN  \/ SeverityRank(a.severity) < SeverityRank(b.severity)
                    \/ /\ SeverityRank(a.severity) = SeverityRank(b.severity)
                       /\ (Parses(a.created_at) /\ Parses(b.created_at))
                            => Timestamp(a.created_at) >= Timestamp(b.created_at)

C13_Witness ==
    \E e \in Entries(1) :
        /\ Returned(e, "list")
        /\ Len(e.docs) = 2
        /\ e.docs[1].severity = "critical" /\ e.docs[2].severity = "critical"
        /\ e.docs[1].created_at = "2024-01-02" /\ e.docs[2].created_at = "2024-01-01"

\* C14: get_issue_by_index(n) raises the invalid-index error for n < 1 and
\* the out-of-range error for n beyond the number of listed records, and
\* get_issue_by_index(1) on a store with records returns a record that no
\* other record precedes in the listing order.
C14_IndexBounds ==
    [][\A p \in Procs :
         Returns(p, "index")
         => LET r == log'[p][Len(log'[p])]
            IN  /\ r.index < 1
                    => r.status = "StorageError" /\ r.why = "Invalid index"
                /\ (r.index >= 1 /\ NoLockFault(p))
                    => /\ r.index > Cardinality(ValidIds)
                           => r.status = "StorageError" /\ r.why = "Index out of range"
                       /\ (r.index = 1 /\ ValidIds # {})
                           => /\ r.status = "ok"
                              /\ r.doc \in ValidDocs
                              /\ \A d \in ValidDocs : KeyLeq(r.doc, d)]_vars

C14_Witness ==
    /\ Len(log[1]) = 2
    /\ log[1][1].op = "index" /\ log[1][1].index = 1 /\ log[1][1].status = "ok"
    /\ Len(log[1][1].docs) = 2
    /\ log[1][1].doc.severity = "critical" /\ log[1][1].docs[2].severity = "low"
    /\ log[1][2].op = "index" /\ log[1][2].index = 3
    /\ log[1][2].why = "Index out of range"

\* The outcomes that are a StorageError (ConcurrentAccessError is a subclass).
StorageErrors == {"StorageError", "ConcurrentAccessError"}

\* C15: a save_issue, load_issue or delete_issue during which an exception
\* was raised, and a get_issue_by_index during which a record file could not
\* be locked or read, ends with a StorageError.
C15_NoFaultSwallowed ==
    [][\A p \in Procs :
         LET r == log'[p][Len(log'[p])]
         IN  /\ ((Returns(p, "save") \/ Returns(p, "load") \/ Returns(p, "delete"))
                   /\ exc[p].type # "none")
                 => r.status \in StorageErrors
             /\ (Returns(p, "index") /\ failed[p] # {})
                 => r.status \in StorageErrors]_vars

\* The positions of file_lock after the with-body or instead of it.
ExitPcs == {"lock_release", "lock_unlink", "ret"}

\* C16: while the lock is held by another process a caller in the
\* acquisition loop can only go on waiting or fail with
\* ConcurrentAccessError, and a caller that failed so is never in its
\* critical section.
C16_LockTimeout ==
    [][\A p \in Procs :
         /\ (pc[p] = "lock_try" /\ HeldByOther(p) /\ pc'[p] # "lock_try")
             => /\ pc'[p] = "lock_release"
                /\ exc'[p].type = "ConcurrentAccessError"
                /\ ~holds'[p]
         /\ exc'[p].type = "ConcurrentAccessError"
             => pc'[p] \in ExitPcs /\ tmp'[p] = Absent]_vars

C16_Witness ==
    \E p, q \in Procs :
        /\ InCS(q) /\ holds[q] /\ fd[q] = lockPath[cur[q].id]
        /\ cur[p].id = cur[q].id /\ cur[p].op = "save"
        /\ pc[p] = "lock_release" /\ fd[p] = fd[q]
        /\ exc[p].type = "ConcurrentAccessError"
        /\ files[cur[p].id].doc # JsonDump(cur[p].doc)

\* C17: ConcurrentAccessError is raised exactly when the acquisition gives up
\* on a lock that another process holds; every other failure of file_lock or
\* of its with-body is a StorageError that is not a ConcurrentAccessError.
C17_ContentionDistinct ==
    [][\A p \in Procs :
         /\ (exc'[p].type = "ConcurrentAccessError" /\ exc[p].type = "none")
             => pc[p] = "lock_try" /\ HeldByOther(p)
         /\ (pc[p] = "lock_try" /\ HeldByOther(p) /\ pc'[p] = "lock_release")
             => exc'[p].type = "ConcurrentAccessError"
         /\ (exc'[p].type # "none" /\ exc[p].type = "none" /\ pc[p] # "lock_try")
             => exc'[p].type = "StorageError"]_vars

\* Process p is between os.open of the side-car of record i and the end of
\* file_lock's finally block.
InFileLock(p, i) ==
    /\ cur[p].id = i
    /\ pc[p] \in {"lock_try", "lock_release", "lock_unlink"} \cup BodyPcs

\* C18: a lock side-car exists only while some process is inside file_lock
\* for that record; when every use has ended by its release, none is left.
C18_SideCarTransient ==
    \A i \in Ids : lockPath[i] # 0 => \E p \in Procs : InFileLock(p, i)

C18_Witness ==
    \E p, q \in Procs :
        /\ p # q
        /\ \A r \in Procs : pc[r] = "idle"
        /\ Len(log[p]) = 1 /\ Returned(log[p][1], "save")
        /\ Len(log[q]) = 1 /\ log[q][1].status = "ConcurrentAccessError"
        /\ log[q][1].id = log[p][1].id
        /\ lockPath[log[p][1].id] = 0

\* The record files that differ between the two states of a step.
Changed == {j \in Ids : files'[j] # files[j]}

\* The positions in the caller's log of the completed calls that saved or
\* removed record i.
Effects(i) ==
    {k \in 1..Len(log[1]) :
        /\ log[1][k].id = i
        /\ \/ Returned(log[1][k], "save")
           \/ Returned(log[1][k], "delete") /\ log[1][k].flag}

\* The record file of i is what the last completed save or delete of i left:
\* the saved document, or nothing; an id no call touched keeps the file the
\* store started with.
LiveFile(i) ==
    IF Effects(i) = {}
    THEN \/ files[i] = Absent /\ written[i] = {}
         \/ files[i].kind = "json" /\ written[i] = {files[i].doc}
    ELSE LET k == CHOOSE m \in Effects(i) : \A n \in Effects(i) : n <= m
         IN  IF log[1][k].op = "save"
             THEN files[i] = File("json", JsonDump(log[1][k].doc))
             ELSE files[i] = Absent

\* C19: between the calls of one caller, every id saved and not deleted
\* afterwards has its file <id>.json holding the last saved document and every
\* id deleted or never saved has none; a step changes at most one record file,
\* and only as the save_issue or delete_issue running on that id does.
C19_OneFilePerRecord ==
    /\ [](pc[1] = "idle" => \A i \in Ids : LiveFile(i))
    /\ [][/\ Cardinality(Changed) <= 1
       /\ \A j \in Changed : \E q \in Procs :
            /\ cur[q].id = j
            /\ \/ cur[q].op = "save" /\ files'[j] = File("json", JsonDump(cur[q].doc))
               \/ cur[q].op = "delete" /\ files'[j] = Absent
       /\ \A p \in Procs :
            LET r == log'[p][Len(log'[p])]
            IN  /\ (Returns(p, "save") /\ r.status = "ok")
                    => /\ files'[r.id] = File("json", JsonDump(r.doc))
                       /\ r.doc.id = r.id
                /\ (Returns(p, "delete") /\ r.status = "ok" /\ r.flag)
                    => files'[r.id] = Absent]_vars

C19_Witness ==
    /\ Len(log[1]) = 2 /\ pc[1] = "idle"
    /\ Returned(log[1][1], "save") /\ log[1][1].id = "a1"
    /\ Cardinality(written["a1"]) = 2
    /\ Returned(log[1][2], "delete") /\ log[1][2].id = "b2" /\ log[1][2].flag
    /\ files["a1"] = File("json", JsonDump(log[1][1].doc))
    /\ files["b2"] = Absent

\* C20: save_issue on a payload that is not a dict raises StorageError
\* "Issue data must be a dictionary" and no record file, temporary file, lock
\* file or backup changes.
C20_NonDictRejected ==
    [][\A p \in Procs :
         LET r == log'[p][Len(log'[p])]
         IN  (Returns(p, "save") /\ r.arg = NullDoc /\ r.id = NoKey)
             => /\ r.status = "StorageError"
                /\ r.why = "Issue data must be a dictionary"
                /\ UNCHANGED fsVars]_vars

\* The messages of the failures of the environment: file_lock itself, and a
\* write that fails after the temp file was created.
EnvFaults == LockFaults \cup {"Atomic write failed"}

\* C21: save_issue of a document that carries a non-empty id returns that
\* id, and a load_issue of the id that follows returns the saved document.
C21_AnyIdRoundTrip ==
    \A k \in 1..Len(log[1]) :
        LET s == log[1][k]
        IN  (s.op = "save" /\ Truthy(s.arg.id) /\ s.why \notin EnvFaults)
            => /\ s.status = "ok" /\ s.id = s.arg.id
               /\ \A l \in {log[1][j] : j \in {k + 1} \cap 1..Len(log[1])} :
                    (l.op = "load" /\ l.id = s.id /\ l.why \notin LockFaults)
                    => l.status = "ok" /\ l.doc = JsonLoad(JsonDump(s.arg))

\* C22: load_issue(name) of a record file that parses to a map returns that
\* map, with id = name when the map has no id field; no step of load_issue
\* changes a record file.
C22_BackfillOnLoad ==
    [][\A p \in Procs :
         LET r == log'[p][Len(log'[p])]
         IN  /\ (Returns(p, "load") /\ r.status = "ok")
                 => /\ files[r.id].kind = "json"
                    /\ r.doc = IF files[r.id].doc.id = NoKey
                               THEN [JsonLoad(files[r.id].doc) EXCEPT !.id = r.id]
                               ELSE JsonLoad(files[r.id].doc)
             /\ (cur[p].op = "load" \/ Returns(p, "load")) => files' = files]_vars

C22_Witness ==
    /\ pc[1] = "idle" /\ Len(log[1]) = 1
    /\ Returned(log[1][1], "load")
    /\ log[1][1].doc.id = log[1][1].id
    /\ files[log[1][1].id].kind = "json"
    /\ files[log[1][1].id].doc.id = NoKey
    /\ log[1][1].doc.title = files[log[1][1].id].doc.title

\* C23: whatever state the backup preference is in, a delete_issue that read
\* it and met no other failure removes the record and returns true, having
\* written a backup unless the preference is false.
C23_BackupDefault ==
    [][\A p \in Procs :
         LET r == log'[p][Len(log'[p])]
         IN  (Returns(p, "delete") /\ pc[p] = "ret" /\ cur[p].rc \in RcValues
                /\ exc[p].why \notin LockFaults \cup BackupFaults \cup {"No such file"})
             => /\ r.status = "ok" /\ r.flag
                /\ files[cur[p].id] = Absent
                /\ (cur[p].rc # "false")
                      <=> backups[<<cur[p].id, cur[p].bt>>] = cur[p].src
                            /\ cur[p].src # Absent]_vars

\* C24: get_storage_stats always returns an aggregate and never raises; the
\* aggregate has total_issues = 0 and an error field when a fault occurred,
\* and otherwise counts the documents of list_issues().
C24_StatsNeverRaises ==
    \A k \in 1..Len(log[1]) :
        LET r == log[1][k]
        IN  r.op = "stats"
            => /\ r.status = "ok"
               /\ r.why = "none" => r.total = Len(r.docs)
               /\ r.why # "none" => r.total = 0

\* The positions of atomic_write_json at which its temp file exists.
TempPcs == {"w_dump", "w_fsync", "w_replace"}

LiveIds == {i \in Names : files[i].kind = "json"}
LiveDocs == {Backfill(JsonLoad(files[i].doc), i) : i \in LiveIds}

\* C26: a listing holds exactly one document for every record that is saved
\* and not deleted, and nothing else, as long as no lock operation fails.
C26_OnePerLiveRecord ==
    [][\A p \in Procs :
         (Returns(p, "list") /\ NoLockFault(p))
         => LET r == log'[p][Len(log'[p])]
            IN  /\ r.status = "ok"
                /\ Len(r.docs) = Cardinality(LiveIds)
                /\ {r.docs[k] : k \in 1..Len(r.docs)} = LiveDocs]_vars

\* C27: diagnostic lines are written only when BUGIT_DEBUG is set, and never
\* on standard output.
C27_TraceOnlyOnSideChannel == ~stdout

\* No other process holds a lock on the record that p works on.
NoHolderOnRecord(p) ==
    \A q \in Procs \ {p} : holds[q] => cur[q].id # cur[p].id

\* C28: a running operation whose record no other process holds a lock on
\* is never made to wait, whatever locks are held on other records: at the
\* flock call it can acquire its lock, and at every other position it can
\* take its next step.
C28_DistinctRecordsIndependent ==
    \A p \in Procs :
        (pc[p] # "idle" /\ NoHolderOnRecord(p))
        => IF pc[p] = "lock_try" THEN ENABLED LockAcquire(p) ELSE ENABLED Work(p)

C28_Witness ==
    \E p, q \in Procs :
        /\ p # q
        /\ InCS(p) /\ holds[p] /\ cur[p].id = "a1"
        /\ InCS(q) /\ holds[q] /\ cur[q].id = "b2"
        /\ cur[p].op = "save" /\ cur[q].op \in {"load", "delete"}

\* C29: when a caller whose acquisition ended in ConcurrentAccessError runs
\* the cleanup of file_lock, the lock file of a process that holds the lock
\* on that record stays in place.
C29_TimeoutLeavesHolder ==
    [][\A q \in Procs :
         (pc[q] = "lock_unlink" /\ pc'[q] = "ret"
            /\ exc[q].type = "ConcurrentAccessError")
         => \A p \in Procs \ {q} :
              (holds[p] /\ cur[p].id = cur[q].id /\ lockPath[cur[p].id] = fd[p])
              => lockPath'[cur[p].id] = fd[p]]_vars

\* C30: a file at a backup path is never an empty or partial copy: it holds
\* the complete content of the record it was copied from.
C30_BackupAtomic ==
    \A k \in DOMAIN backups :
        backups[k].kind # "absent"
        => /\ backups[k].kind = "json"
           /\ backups[k].doc \in written[k[1]]


\* The backup files that hold a whole record.
WholeBackups == {k \in DOMAIN backups : backups[k].kind = "json"}

\* C31: with backups enabled a delete_issue that returns true has left its
\* backup file, and a backup file that holds a whole record is never
\* overwritten or removed by a later step, also when the same id is saved
\* again and deleted within the same second.
C31_BackupsKept ==
    [][/\ \A k \in WholeBackups : backups'[k] = backups[k]
       /\ \A p \in Procs :
            (Returns(p, "delete") /\ pc[p] = "ret" /\ cur[p].bk /\ exc[p].type = "none")
            => backups[<<cur[p].id, cur[p].bt>>] = cur[p].src]_vars

\* C32: with backups enabled the record file is removed only by the unlink
\* that follows a backup written in full, and a delete_issue whose backup
\* could not be written raises a StorageError and leaves the record file as
\* it was.
C32_NoUnlinkWithoutBackup ==
    [][\A p \in Procs :
         LET i == cur[p].id
             r == log'[p][Len(log'[p])]
         IN  /\ (cur[p].op = "delete" /\ files' # files)
                => /\ pc[p] = "d_unlink" /\ exc[p].type = "none"
                   /\ cur[p].bk => backups[<<i, cur[p].bt>>] = files[i]
                                     /\ files[i].kind # "absent"
             /\ (Returns(p, "delete") /\ exc[p].why \in BackupFaults)
                => /\ r.status = "StorageError"
                   /\ files'[i].kind # "absent"
                   /\ written[i] = written'[i]
                   /\ cur[p].src # Absent => files'[i] = cur[p].src]_vars

C32_Witness ==
    \E k \in 1..Len(log[1]) :
        /\ log[1][k].op = "delete"
        /\ log[1][k].status = "StorageError"
        /\ log[1][k].why \in BackupFaults
        /\ files[log[1][k].id].kind = "json"


\* No delete_issue of record i has been called.
NeverDeleted(i) ==
    \A q \in Procs :
        /\ ~(cur[q].op = "delete" /\ cur[q].id = i)
        /\ \A e \in Entries(q) : ~(e.op = "delete" /\ e.id = i)

\* C33: a load_issue of a record that was stored before the call and that
\* nobody deletes never fails with not-found, whatever save_issue calls
\* overwrite the record meanwhile, and the document it returns is one of the
\* contents the record file has held.
C33_LoadDuringOverwrite ==
    [][\A p \in Procs :
         LET r == log'[p][Len(log'[p])]
         IN  (Returns(p, "load") /\ written[r.id] # {} /\ NeverDeleted(r.id))
             => /\ r.why \notin {"Issue not found", "Issue file not found"}
                /\ r.status = "ok"
                     => r.doc \in {Backfill(JsonLoad(w), r.id) : w \in written[r.id]}]_vars

C33_Witness ==
    \E p, q \in Procs :
        /\ p # q
        /\ cur[q].op = "save" /\ pc[q] \in {"lock_unlink", "ret"} /\ exc[q].type = "none"
        /\ Len(log[p]) = 1 /\ Returned(log[p][1], "load")
        /\ log[p][1].id = cur[q].id
        /\ log[p][1].doc = JsonLoad(JsonDump(cur[q].doc))
        /\ Cardinality(written[cur[q].id]) = 2


\* Sequence l is in listing order.
InListingOrder(l) == \A k \in 1..(Len(l) - 1) : KeyLeq(l[k], l[k + 1])

SameRank(a, b) == SeverityRank(a.severity) = SeverityRank(b.severity)

\* C35: in every listing, no document whose created_at is missing or does
\* not parse stands before a document of the same severity rank whose
\* created_at parses, whatever valid time that is.
C35_UnparseableOldest ==
    \A p \in Procs : \A e \in Entries(p) :
        e.op \in {"list", "index", "stats"} =>
            \A j, k \in 1..Len(e.docs) :
                (j < k /\ SameRank(e.docs[j], e.docs[k]) /\ ~Parses(e.docs[j].created_at))
                => ~Parses(e.docs[k].created_at)

\* The sizes of the record files of the ids in S, added up.
RECURSIVE SizeOfFiles(_)
SizeOfFiles(S) ==
    IF S = {} THEN 0
    ELSE LET i == CHOOSE x \in S : TRUE
         IN  FileSize(files[i]) + SizeOfFiles(S \ {i})

\* The numbers of f over the set S, added up.
RECURSIVE SumOver(_, _)
SumOver(f, S) ==
    IF S = {} THEN 0
    ELSE LET v == CHOOSE x \in S : TRUE
         IN  f[v] + SumOver(f, S \ {v})

\* C36: an aggregate that get_storage_stats returns without an error field
\* agrees with its listing: the four severity counts add up to total_issues,
\* which is the length of the listing, and total_size_bytes is the sum of
\* the sizes of the record files the listed documents were read from.
C36_StatsConsistent ==
    [][\A p \in Procs :
         LET r == log'[p][Len(log'[p])]
         IN  (Returns(p, "stats") /\ r.status = "ok" /\ r.why = "none")
             => /\ r.total = Len(r.docs)
                /\ SumOver(r.by, Severities) = r.total
                /\ NoLockFault(p) => r.size = SizeOfFiles(ValidIds)]_vars


\* C37: a process that opens or waits for a lock holds no lock, some running
\* process can always take a step, and every call that was started returns.
C37_Terminates ==
    /\ [](\A p \in Procs : pc[p] \in {"lock_open", "lock_try"} => ~holds[p])
    /\ []((\E p \in Procs : pc[p] # "idle") => ENABLED (\E p \in Procs : StepLive(p)))
    /\ \A p \in Procs : (pc[p] # "idle") ~> (pc[p] = "idle")

C37_Witness ==
    \E p, q \in Procs :
        /\ pc[p] = "idle" /\ pc[q] = "idle" /\ ops = MaxOps
        /\ Len(log[p]) = 1 /\ Returned(log[p][1], "list") /\ Len(log[p][1].docs) = 2
        /\ Len(log[q]) = 1 /\ log[q][1].op = "delete"
        /\ log[q][1].status = "ConcurrentAccessError"


\* No other process than p saves or deletes record i.
Untouched(p, i) ==
    \A q \in Procs \ {p} :
        /\ ~(cur[q].op \in {"save", "delete"} /\ cur[q].id = i)
        /\ \A e \in Entries(q) : ~(e.op \in {"save", "delete"} /\ e.id = i)

C39_RetryBounded ==
    /\ [](run.node # "idle"
            => /\ run.retry_count <= run.max_retries
               /\ run.attempts <= run.max_retries + 1)
    /\ [][/\ (run.node # "idle" /\ run.result # "none")
              => /\ run'.attempts = run.attempts
                 /\ run'.node = "idle" => run'.out = "ok" /\ run'.ret = run.result
          /\ (run.node # "idle" /\ run.result = "none" /\ run'.node = "idle")
              => /\ run'.out = "ModelError"
                 /\ run'.msg = FailedAfter(run.max_retries, run.error)
                 /\ run.error \in Failures
                 /\ run.attempts = run.max_retries + 1
                 /\ run.retry_count = run.max_retries]_vars

C39_Witness ==
    /\ run.node = "idle"
    /\ run.out = "ModelError"
    /\ run.max_retries = MaxRetries
    /\ run.attempts = MaxRetries + 1
    /\ run.msg = FailedAfter(MaxRetries, "timeout")

====
